---- MODULE Spec2Model ----
(***************************************************************************)
(* Model of the OCR dispatch layer: the serverless dispatcher (handler of  *)
(* /api/ocr with its four vendor adapters), the connectivity prober        *)
(* (handler of /api/ocr/test), the client-side facade (performCloudOcr,    *)
(* testCloudOcrConnection) and the analysis service (analyzePosterImage,   *)
(* parseTerminologyFromText, in both versions kept in the repository).     *)
(*                                                                         *)
(* Conventions.                                                            *)
(*  - A JavaScript string value is a TLA+ string; the value undefined is   *)
(*    the distinguished string Undefined.  A numeric JSON field is written *)
(*    with its decimal digits ("0", "17").                                 *)
(*  - An error message is a sequence of text fragments, so that "contains  *)
(*    as a substring" is "contains as a contiguous subsequence".  The      *)
(*    source's Chinese literals are rendered in ASCII; the original text   *)
(*    is quoted in the comment of each literal.                            *)
(*  - An async function is cut at its awaits: one action per resumption.   *)
(*  - The language and options arguments only shape the body of the       *)
(*    outgoing vendor request (language_type, prompt); they decide no      *)
(*    branch and are left out of the requests.                             *)
(*  - At most one top-level invocation runs at a time: the invocations     *)
(*    share no mutable state, only the read-only environment.              *)
(*  - dlast is a history variable: no code reads it.  It remembers which   *)
(*    provider the last finished dispatcher invocation served.             *)
(***************************************************************************)
EXTENDS Integers, Sequences, FiniteSets, TLC

VARIABLES env,  \* process.env of the serverless functions
  dpc,      \* dispatcher: position of the running handler invocation
  dreq,     \* dispatcher: the request being handled
  dcalls,   \* dispatcher: URLs fetched by this invocation, in order
  dtoken,   \* dispatcher: outcome of the adapter's token exchange
  ddata,    \* dispatcher: outcome of the adapter's OCR request
  dcaught,  \* dispatcher: messages of the errors caught by the handler
  dresp,    \* dispatcher: the response sent
  dsent,    \* dispatcher: how many responses were sent
  fpc,      \* facade: position of the running performCloudOcr call
  farg,     \* facade: its arguments
  fcalls,   \* facade: requests fetched by this call, in order
  fcaught,  \* facade: messages of the errors caught by its catch block
  fout,     \* facade: how the call ended (value returned or error thrown)
  ppc,      \* prober: position of the running handler invocation
  preq,     \* prober: the request being handled
  pcalls,   \* prober: URLs fetched by this invocation, in order
  ptoken,   \* prober: outcome of the Baidu token handshake
  presp,    \* prober: the response sent
  gpc,      \* analysis service: position of the running call
  garg,     \* analysis service: the function called and its arguments
  gocr,     \* analysis service: analyzePosterImage's ocrText
  gswallowed, \* analysis service: messages of the OCR errors it logged and swallowed
  gmodel,   \* analysis service: how the model call settled
  gcaught,  \* analysis service: messages of the errors its catch block caught
  gout,     \* analysis service: how the call ended
  tpc,      \* connection test: position of the running call
  targ,     \* connection test: its provider argument
  tcalls,   \* connection test: the requests it sent
  tresp,    \* connection test: the response it received (response, data)
  tout,     \* connection test: how the call ended
  dlast     \* history: the provider the last finished dispatcher invocation
            \* answered successfully, or "none"

dvars == <<dpc, dreq, dcalls, dtoken, ddata, dcaught, dresp, dsent>>
fvars == <<fpc, farg, fcalls, fcaught, fout>>
pvars == <<ppc, preq, pcalls, ptoken, presp>>
gvars == <<gpc, garg, gocr, gswallowed, gmodel, gcaught, gout>>
tvars == <<tpc, targ, tcalls, tresp, tout>>
vars == <<env, dlast, dvars, fvars, pvars, gvars, tvars>>

----------------------------------------------------------------------------
(* JavaScript values *)

Undefined == "<undefined>"
Null == "<null>"

\* !v is false: v is a string other than undefined, null and ''
Truthy(v) == v \notin {Undefined, Null, ""}

\* !v is false for a numeric field: present and not 0
TruthyNum(v) == v \notin {Undefined, Null, "0"}

\* `${v}` in a template literal
Str(v) == IF v = Undefined THEN "undefined"
          ELSE IF v = Null THEN "null" ELSE v

\* String.prototype.includes on a message: one of its fragments is the needle
Includes(msg, needle) == \E i \in 1..Len(msg) : msg[i] = needle

\* part occurs in whole as a contiguous run of fragments
Contains(whole, part) ==
  \E i \in 0..(Len(whole) - Len(part)) :
    \A j \in 1..Len(part) : whole[i + j] = part[j]

\* Array.prototype.join('\n')
RECURSIVE JoinLines(_)
JoinLines(ws) ==
  IF Len(ws) = 0 THEN ""
  ELSE IF Len(ws) = 1 THEN ws[1]
  ELSE ws[1] \o "\n" \o JoinLines(Tail(ws))

----------------------------------------------------------------------------
(* Process environment *)

CredVars == {"BAIDU_OCR_API_KEY", "BAIDU_OCR_SECRET_KEY",
             "ALIYUN_OCR_ACCESS_KEY_ID", "ALIYUN_OCR_ACCESS_KEY_SECRET",
             "WECHAT_OCR_APP_ID", "WECHAT_OCR_APP_SECRET",
             "GEMINI_API_KEY"}
EnvVars == CredVars \cup {"NODE_ENV"}

EnvValues(v) == IF v = "NODE_ENV" THEN {"production", "development"}
                ELSE {Undefined, "k"}

Envs == {e \in [EnvVars -> {Undefined, "k", "production", "development"}] :
           \A v \in EnvVars : e[v] \in EnvValues(v)}

\* const getApiKeys = () => ({ baidu: {...}, aliyun: {...}, ... })
getApiKeys(e) ==
  [baidu  |-> [apiKey |-> e["BAIDU_OCR_API_KEY"],
               secretKey |-> e["BAIDU_OCR_SECRET_KEY"]],
   aliyun |-> [accessKeyId |-> e["ALIYUN_OCR_ACCESS_KEY_ID"],
               accessKeySecret |-> e["ALIYUN_OCR_ACCESS_KEY_SECRET"]],
   wechat |-> [appId |-> e["WECHAT_OCR_APP_ID"],
               appSecret |-> e["WECHAT_OCR_APP_SECRET"]],
   gemini |-> [apiKey |-> e["GEMINI_API_KEY"]]]

----------------------------------------------------------------------------
(* Dispatcher: requests *)

Providers == {"baidu", "aliyun", "wechat", "gemini"}

\* provider values a request body can carry
ProviderValues == Providers \cup {Undefined, "", "local", "tencent"}

\* the encoded-length threshold of the size guard
MaxEncodedLen == 7 * 1024 * 1024

ImageLens == {0, 1, MaxEncodedLen, MaxEncodedLen + 1}

\* imageBase64: absent, or a string of the given length
Images == {[defined |-> FALSE, len |-> 0]} \cup
          [defined : {TRUE}, len : ImageLens]

\* !body.imageBase64 is false
TruthyImage(img) == img.defined /\ img.len > 0

NoBody == [present |-> FALSE, provider |-> Undefined,
           imageBase64 |-> [defined |-> FALSE, len |-> 0]]

Bodies == {NoBody} \cup
          [present : {TRUE}, provider : ProviderValues, imageBase64 : Images]

----------------------------------------------------------------------------
(* Message literals *)

MsgPostOnly      == "Only POST is supported"                \* '只支持POST请求'
MsgMissingParams == "Missing required parameters: provider and imageBase64"
                                  \* '缺少必要参数: provider 和 imageBase64'
MsgTooLarge      == "Image too large, compress and retry (limit 5MB)"
                                  \* '图片过大，请压缩后重试（限制5MB）'
MsgUnsupported   == "Unsupported OCR provider: "            \* `不支持的OCR提供商: `
MsgOcrFailed     == "OCR processing failed"                 \* 'OCR处理失败'
MsgBaiduNoKey    == "Baidu OCR API key not configured"      \* '百度OCR API密钥未配置'
MsgAliyunNoKey   == "Aliyun OCR API key not configured"     \* '阿里云OCR API密钥未配置'
MsgWechatNoKey   == "WeChat OCR API key not configured"     \* '微信OCR API密钥未配置'
MsgGeminiNoKey   == "Gemini API key not configured"         \* 'Gemini API密钥未配置'
MsgBaiduAuth     == "Baidu OCR authentication failed: "     \* `百度OCR认证失败: `
MsgBaiduOcr      == "Baidu OCR recognition failed: "        \* `百度OCR识别失败: `
MsgAliyunOcr     == "Aliyun OCR recognition failed: "       \* `阿里云OCR识别失败: `
MsgWechatAuth    == "WeChat OCR authentication failed: "    \* `微信OCR认证失败: `
MsgWechatOcr     == "WeChat OCR recognition failed: "       \* `微信OCR识别失败: `
MsgGeminiOcr     == "Gemini recognition failed: "           \* `Gemini识别失败: `

----------------------------------------------------------------------------
(* Vendor endpoints and the responses they can give *)

UrlBaiduToken  == "https://aip.baidubce.com/oauth/2.0/token"
UrlBaiduOcr    == "https://aip.baidubce.com/rest/2.0/ocr/v1/general_basic"
UrlAliyunOcr   == "https://ocr.cn-shanghai.aliyuncs.com"
UrlWechatToken == "https://api.weixin.qq.com/cgi-bin/token"
UrlWechatOcr   == "https://api.weixin.qq.com/cv/ocr/comm"
UrlGemini      == "https://generativelanguage.googleapis.com/v1beta/models/gemini-1.5-flash:generateContent"

\* JSON bodies of the Baidu token endpoint
BaiduTokenData ==
  {[error |-> Undefined, error_description |-> Undefined,
    access_token |-> "tok", expires_in |-> "2592000"],
   [error |-> Undefined, error_description |-> Undefined,
    access_token |-> Undefined, expires_in |-> Undefined]}
  \cup
  [error : {"invalid_client"},
   error_description : {Undefined, "unknown client id"},
   access_token : {Undefined}, expires_in : {Undefined}]

\* JSON bodies of the Baidu general_basic endpoint; words_result is a list
\* of the words of the recognised lines, present only when hasWords
BaiduOcrData ==
  [error_code : {Undefined, "0"}, error_msg : {Undefined},
   hasWords : {TRUE}, words_result : {<<>>, <<"a">>, <<"a", "b">>}]
  \cup
  [error_code : {Undefined, "0"}, error_msg : {Undefined},
   hasWords : {FALSE}, words_result : {<<>>}]
  \cup
  [error_code : {"17"}, error_msg : {Undefined, "Open api daily request limit reached"},
   hasWords : {FALSE}, words_result : {<<>>}]

\* JSON bodies of the Aliyun endpoint; Code "200:number" is the number 200
AliyunOcrData ==
  [Code : {"200"}, Message : {Undefined}, hasData : {TRUE},
   Content : {Undefined, Null, "", "text"}]
  \cup
  [Code : {"200"}, Message : {Undefined}, hasData : {FALSE},
   Content : {Undefined}]
  \cup
  [Code : {Undefined, "200:number", "InvalidImage"},
   Message : {Undefined, "bad image"}, hasData : {FALSE},
   Content : {Undefined}]

\* JSON bodies of the WeChat token endpoint
WechatTokenData ==
  {[errcode |-> Undefined, errmsg |-> Undefined, access_token |-> "tok"],
   [errcode |-> "0", errmsg |-> "ok", access_token |-> "tok"],
   [errcode |-> Undefined, errmsg |-> Undefined, access_token |-> Undefined]}
  \cup
  [errcode : {"40013"}, errmsg : {Undefined, "invalid appid"},
   access_token : {Undefined}]

\* JSON bodies of the WeChat cv/ocr/comm endpoint
WechatOcrData ==
  [errcode : {Undefined, "0"}, errmsg : {Undefined, "ok"},
   hasItems : {TRUE}, items : {<<>>, <<"a">>, <<"a", "b">>}]
  \cup
  [errcode : {Undefined, "0"}, errmsg : {Undefined},
   hasItems : {FALSE}, items : {<<>>}]
  \cup
  [errcode : {"101000"}, errmsg : {Undefined, "invalid image url"},
   hasItems : {FALSE}, items : {<<>>}]

\* JSON bodies of the Gemini generateContent endpoint.  candidates, when
\* present, lists for each candidate the value of content?.parts?.[0]?.text
GeminiData ==
  [hasError : {FALSE}, errorMessage : {Undefined},
   hasCandidates : {TRUE},
   candidates : {<<>>, <<Undefined>>, <<Null>>, <<"">>, <<"text">>,
                 <<"text", "more">>}]
  \cup
  [hasError : {FALSE}, errorMessage : {Undefined},
   hasCandidates : {FALSE}, candidates : {<<>>}]
  \cup
  [hasError : {TRUE}, errorMessage : {Undefined, "API key not valid"},
   hasCandidates : {FALSE}, candidates : {<<>>}]

\* messages of the errors with which node-fetch's fetch() or response.json()
\* rejects in the dispatcher
NodeFetchErrors ==
  {[name |-> "FetchError", message |-> <<"request failed, reason: ", "ECONNRESET">>],
   [name |-> "FetchError",
    message |-> <<"invalid json response body, reason: ", "Unexpected token <">>],
   [name |-> "TypeError", message |-> <<"fetch failed">>],
   [name |-> "Error", message |-> <<>>]}

----------------------------------------------------------------------------
(* Dispatcher: the adapters' pure parts *)

\* data.words_result?.map(item => item.words).join('\n') || ''
BaiduText(data) ==
  LET joined == IF data.hasWords THEN JoinLines(data.words_result)
                ELSE Undefined
  IN IF Truthy(joined) THEN joined ELSE ""

\* data.Data?.Content without the || ''
AliyunTextNoDefault(data) ==
  IF data.hasData THEN data.Content ELSE Undefined

\* data.Data?.Content || ''
AliyunText(data) ==
  LET content == IF data.hasData THEN data.Content ELSE Undefined
  IN IF Truthy(content) THEN content ELSE ""

\* ocrData.items?.map(item => item.text).join('\n') || ''
WechatText(data) ==
  LET joined == IF data.hasItems THEN JoinLines(data.items) ELSE Undefined
  IN IF Truthy(joined) THEN joined ELSE ""

\* data.candidates?.[0]?.content?.parts?.[0]?.text || ''
GeminiText(data) ==
  LET first == IF data.hasCandidates /\ Len(data.candidates) > 0
               THEN data.candidates[1] ELSE Undefined
  IN IF Truthy(first) THEN first ELSE ""

\* the test reading error_description instead of error
BaiduTokenFailedByDescription(data) == Truthy(data.error_description)

\* if (data.error) in getBaiduAccessToken
BaiduTokenFailed(data) == Truthy(data.error)

\* if (tokenData.errcode) in callWechatOcr
WechatTokenFailed(data) == TruthyNum(data.errcode)

\* if (data.error_code) in callBaiduOcr
BaiduOcrFailed(data) == TruthyNum(data.error_code)

\* if (data.Code !== '200') in callAliyunOcr
AliyunOcrFailed(data) == data.Code # "200"

\* the test reading the message instead of the code
WechatOcrFailedByMessage(data) == Truthy(data.errmsg) /\ data.errmsg # "ok"

\* if (ocrData.errcode) in callWechatOcr
WechatOcrFailed(data) == TruthyNum(data.errcode)

\* the test failing on a missing candidate as well
GeminiFailedOnNoCandidates(data) ==
  data.hasError \/ ~data.hasCandidates \/ data.candidates = <<>>

\* if (data.error) in callGeminiOcr
GeminiFailed(data) == data.hasError

\* the guard testing only the first field of each provider
CredentialErrorFirstField(p, e) ==
  LET keys == getApiKeys(e) IN
  CASE p = "baidu" -> IF ~Truthy(keys.baidu.apiKey) THEN <<MsgBaiduNoKey>> ELSE <<>>
    [] p = "aliyun" -> IF ~Truthy(keys.aliyun.accessKeyId) THEN <<MsgAliyunNoKey>> ELSE <<>>
    [] p = "wechat" -> IF ~Truthy(keys.wechat.appId) THEN <<MsgWechatNoKey>> ELSE <<>>
    [] p = "gemini" -> IF ~Truthy(keys.gemini.apiKey) THEN <<MsgGeminiNoKey>> ELSE <<>>

\* the credential guard each adapter runs first; the message it throws
CredentialError(p, e) ==
  LET keys == getApiKeys(e) IN
  CASE p = "baidu" ->
         IF ~Truthy(keys.baidu.apiKey) \/ ~Truthy(keys.baidu.secretKey)
         THEN <<MsgBaiduNoKey>> ELSE <<>>
    [] p = "aliyun" ->
         IF ~Truthy(keys.aliyun.accessKeyId) \/ ~Truthy(keys.aliyun.accessKeySecret)
         THEN <<MsgAliyunNoKey>> ELSE <<>>
    [] p = "wechat" ->
         IF ~Truthy(keys.wechat.appId) \/ ~Truthy(keys.wechat.appSecret)
         THEN <<MsgWechatNoKey>> ELSE <<>>
    [] p = "gemini" ->
         IF ~Truthy(keys.gemini.apiKey) THEN <<MsgGeminiNoKey>> ELSE <<>>

\* the first URL an adapter fetches
FirstUrl(p) ==
  CASE p = "baidu"  -> UrlBaiduToken
    [] p = "aliyun" -> UrlAliyunOcr
    [] p = "wechat" -> UrlWechatToken
    [] p = "gemini" -> UrlGemini

----------------------------------------------------------------------------
(* Dispatcher: the handler's pure parts *)

\* the guard without its imageBase64 test
MissingParamsNoImage(body) == ~body.present \/ ~Truthy(body.provider)

\* if (!body || !body.provider || !body.imageBase64)
MissingParams(body) ==
  ~body.present \/ ~Truthy(body.provider) \/ ~TruthyImage(body.imageBase64)

\* the guard with >= for >
TooLargeInclusive(body) == body.imageBase64.len >= MaxEncodedLen

\* if (body.imageBase64.length > 7 * 1024 * 1024)
TooLarge(body) == body.imageBase64.len > MaxEncodedLen

\* the default branch answering as the catch block does
UnsupportedAsServerError(provider) ==
  [status |-> 500, body |-> [success |-> FALSE, error |-> <<MsgOcrFailed>>]]

\* the default branch of the switch
UnsupportedReply(provider) ==
  [status |-> 400,
   body |-> [success |-> FALSE, error |-> <<MsgUnsupported, Str(provider)>>]]

\* an Error the code itself throws: new Error(msg)
Error(msg) == [name |-> "Error", message |-> msg]

\* error.stack: the header is the error's name, followed by ": " and the
\* message when the message is not empty; then the frames
Stack(err) ==
  IF err.message = <<>> THEN <<err.name, "\n    at ">>
  ELSE <<err.name, ": ">> \o err.message \o <<"\n    at ">>

\* the catch block's JSON body with the stack sent in every environment
ErrorEnvelopeAlwaysDetails(err, e) ==
  [success |-> FALSE,
   error |-> IF err.message # <<>> THEN err.message ELSE <<MsgOcrFailed>>,
   details |-> Stack(err)]

\* the catch block's JSON body; JSON.stringify omits a key whose value is
\* undefined
ErrorEnvelope(err, e) ==
  LET error == IF err.message # <<>> THEN err.message ELSE <<MsgOcrFailed>> IN
  IF e["NODE_ENV"] = "development"
  THEN [success |-> FALSE, error |-> error, details |-> Stack(err)]
  ELSE [success |-> FALSE, error |-> error]

\* what the handler answers before it reaches the switch; status 0: nothing
EarlyReply(method, body) ==
  IF method = "OPTIONS" THEN [status |-> 200, body |-> [ended |-> TRUE]]
  ELSE IF method # "POST"
    THEN [status |-> 405,
          body |-> [success |-> FALSE, error |-> <<MsgPostOnly>>]]
  ELSE IF MissingParams(body)
    THEN [status |-> 400,
          body |-> [success |-> FALSE, error |-> <<MsgMissingParams>>]]
  ELSE IF TooLarge(body)
    THEN [status |-> 400,
          body |-> [success |-> FALSE, error |-> <<MsgTooLarge>>]]
  ELSE [status |-> 0, body |-> [none |-> TRUE]]

----------------------------------------------------------------------------
(* Dispatcher: actions *)

NoResp == [status |-> 0, body |-> [none |-> TRUE]]
NoReq  == [method |-> "", body |-> NoBody]
NoToken == [kind |-> "none"]
NoData  == [kind |-> "none"]

Idle ==
  dpc = "idle" /\ fpc = "idle" /\ ppc = "idle" /\ gpc = "idle" /\ tpc = "idle"

\* requests that reach the dispatcher over HTTP
Requests ==
  [method : {"POST"}, body : Bodies]
  \cup
  [method : {"OPTIONS", "GET"},
   body : {NoBody, [present |-> TRUE, provider |-> "baidu",
                    imageBase64 |-> [defined |-> TRUE, len |-> 1]]}]

\* response.status(s).json(b) / .end(), followed by the handler's return
Send(status, body) ==
  /\ dresp' = [status |-> status, body |-> body]
  /\ dsent' = dsent + 1
  /\ dpc' = "done"

\* catch (error) { ... response.status(500).json({...}) }
CatchError(err) ==
  /\ dcaught' = Append(dcaught, err.message)
  /\ Send(500, ErrorEnvelope(err, env))

\* the catch block catching an error an adapter threw with new Error(msg)
Catch(msg) == CatchError(Error(msg))

\* the handler from its entry to its first await (or to its return)
ocrHandler(method, body) ==
  /\ dpc = "idle"
  /\ dreq' = [method |-> method, body |-> body]
  /\ LET early == EarlyReply(method, body) IN
     IF early.status # 0
     THEN Send(early.status, early.body) /\ UNCHANGED <<dcalls, dcaught>>
     ELSE IF body.provider \notin Providers
     THEN LET r == UnsupportedReply(body.provider) IN
          Send(r.status, r.body) /\ UNCHANGED <<dcalls, dcaught>>
     ELSE LET cred == CredentialError(body.provider, env) IN
          IF cred # <<>>
          THEN Catch(cred) /\ UNCHANGED dcalls
          ELSE /\ dcalls' = Append(dcalls, FirstUrl(body.provider))
               /\ dpc' = IF body.provider \in {"baidu", "wechat"}
                         THEN "token" ELSE "request"
               /\ UNCHANGED <<dcaught, dresp, dsent>>
  /\ UNCHANGED <<dtoken, ddata>>

\* a request arrives at /api/ocr
HttpRequest ==
  /\ Idle
  /\ \E r \in Requests : ocrHandler(r.method, r.body)
  /\ UNCHANGED <<env, dlast, fvars, pvars, tvars, gvars>>

\* the pending fetch() or response.json() rejects
FetchReject ==
  /\ dpc \in {"token", "request"}
  /\ \E err \in NodeFetchErrors :
       /\ CatchError(err)
       /\ dtoken' = IF dpc = "token"
                    THEN [kind |-> "reject", name |-> err.name,
                          message |-> err.message]
                    ELSE dtoken
       /\ ddata' = IF dpc = "request"
                   THEN [kind |-> "reject", name |-> err.name,
                         message |-> err.message]
                   ELSE ddata
  /\ UNCHANGED <<env, dlast, dreq, dcalls, fvars, pvars, tvars, gvars>>

\* getBaiduAccessToken resumes with the token endpoint's JSON
BaiduTokenReply ==
  /\ dpc = "token" /\ dreq.body.provider = "baidu"
  /\ \E data \in BaiduTokenData :
       /\ dtoken' = [kind |-> "json", data |-> data]
       /\ IF BaiduTokenFailed(data)
          THEN /\ Catch(<<MsgBaiduAuth, Str(data.error_description)>>)
               /\ UNCHANGED dcalls
          ELSE /\ dcalls' = Append(dcalls, UrlBaiduOcr)
               /\ dpc' = "request"
               /\ UNCHANGED <<dcaught, dresp, dsent>>
  /\ UNCHANGED <<env, dlast, dreq, ddata, fvars, pvars, tvars, gvars>>

\* callWechatOcr resumes with the token endpoint's JSON
WechatTokenReply ==
  /\ dpc = "token" /\ dreq.body.provider = "wechat"
  /\ \E data \in WechatTokenData :
       /\ dtoken' = [kind |-> "json", data |-> data]
       /\ IF WechatTokenFailed(data)
          THEN /\ Catch(<<MsgWechatAuth, Str(data.errmsg)>>)
               /\ UNCHANGED dcalls
          ELSE /\ dcalls' = Append(dcalls, UrlWechatOcr)
               /\ dpc' = "request"
               /\ UNCHANGED <<dcaught, dresp, dsent>>
  /\ UNCHANGED <<env, dlast, dreq, ddata, fvars, pvars, tvars, gvars>>

\* return response.status(200).json({ success: true, data: result })
SendResult(text, provider, data) ==
  Send(200, [success |-> TRUE,
             data |-> [text |-> text, provider |-> provider,
                       rawResult |-> data]])

\* callBaiduOcr resumes with the OCR endpoint's JSON
BaiduOcrReply ==
  /\ dpc = "request" /\ dreq.body.provider = "baidu"
  /\ \E data \in BaiduOcrData :
       /\ ddata' = [kind |-> "json", data |-> data]
       /\ IF BaiduOcrFailed(data)
          THEN Catch(<<MsgBaiduOcr, Str(data.error_msg)>>)
          ELSE SendResult(BaiduText(data), "baidu", data) /\ UNCHANGED dcaught
  /\ UNCHANGED <<env, dlast, dreq, dcalls, dtoken, fvars, pvars, tvars, gvars>>

\* callAliyunOcr resumes with the endpoint's JSON
AliyunOcrReply ==
  /\ dpc = "request" /\ dreq.body.provider = "aliyun"
  /\ \E data \in AliyunOcrData :
       /\ ddata' = [kind |-> "json", data |-> data]
       /\ IF AliyunOcrFailed(data)
          THEN Catch(<<MsgAliyunOcr, Str(data.Message)>>)
          ELSE SendResult(AliyunText(data), "aliyun", data) /\ UNCHANGED dcaught
  /\ UNCHANGED <<env, dlast, dreq, dcalls, dtoken, fvars, pvars, tvars, gvars>>

\* callWechatOcr resumes with the OCR endpoint's JSON
WechatOcrReply ==
  /\ dpc = "request" /\ dreq.body.provider = "wechat"
  /\ \E data \in WechatOcrData :
       /\ ddata' = [kind |-> "json", data |-> data]
       /\ IF WechatOcrFailed(data)
          THEN Catch(<<MsgWechatOcr, Str(data.errmsg)>>)
          ELSE SendResult(WechatText(data), "wechat", data) /\ UNCHANGED dcaught
  /\ UNCHANGED <<env, dlast, dreq, dcalls, dtoken, fvars, pvars, tvars, gvars>>

\* callGeminiOcr resumes with the endpoint's JSON
GeminiReply ==
  /\ dpc = "request" /\ dreq.body.provider = "gemini"
  /\ \E data \in GeminiData :
       /\ ddata' = [kind |-> "json", data |-> data]
       /\ IF GeminiFailed(data)
          THEN Catch(<<MsgGeminiOcr, Str(data.errorMessage)>>)
          ELSE SendResult(GeminiText(data), "gemini", data) /\ UNCHANGED dcaught
  /\ UNCHANGED <<env, dlast, dreq, dcalls, dtoken, fvars, pvars, tvars, gvars>>

DispatcherReset ==
  /\ dpc' = "idle" /\ dreq' = NoReq /\ dcalls' = <<>> /\ dcaught' = <<>>
  /\ dtoken' = NoToken /\ ddata' = NoData
  /\ dresp' = NoResp /\ dsent' = 0
  /\ dlast' = IF dreq.method = "POST" /\ dresp.status = 200
              THEN dreq.body.provider ELSE "none"

\* the invocation is over; its locals are gone
OcrReturn ==
  /\ dpc = "done" /\ fpc = "idle"
  /\ DispatcherReset
  /\ UNCHANGED <<env, fvars, pvars, tvars, gvars>>

----------------------------------------------------------------------------
(* Facade: performCloudOcr *)

MsgLocalDirect == "Local OCR: call the local service directly, not the cloud function"
                                  \* '本地OCR请直接调用本地服务，无需通过云函数'
MsgRequestFailed == "OCR request failed"                    \* 'OCR请求失败'
MsgNetwork == "Network connection failed, check the network and retry"
                                  \* '网络连接失败，请检查网络后重试'
MsgWrap == "OCR recognition failed: "                       \* `OCR识别失败: `

\* the members of the OCRProvider enumeration
OCRProviders == {"GEMINI", "BAIDU", "WECHAT", "ALIBABA", "LOCAL", "ESEARCH"}

providerMap(provider) ==
  CASE provider = "GEMINI"  -> "gemini"
    [] provider = "BAIDU"   -> "baidu"
    [] provider = "WECHAT"  -> "wechat"
    [] provider = "ALIBABA" -> "aliyun"
    [] provider = "LOCAL"   -> "local"
    [] provider = "ESEARCH" -> "local"

\* the test without its ESEARCH half
IsLocalOnly(provider) == provider = "LOCAL"

\* if (provider === OCRProvider.LOCAL || provider === OCRProvider.ESEARCH)
IsLocal(provider) == provider \in {"LOCAL", "ESEARCH"}

\* messages of the errors with which the browser's fetch() or
\* response.json() rejects
BrowserFetchErrors ==
  {<<"Failed to fetch">>,
   <<"NetworkError", " when attempting to fetch resource.">>,
   <<"Load failed">>,
   <<"Unexpected token < in JSON at position 0">>}

\* the catch block throwing the wrapper text without the caught message
FacadeRethrowBare(msg) ==
  IF Includes(msg, "NetworkError") \/ Includes(msg, "Failed to fetch")
  THEN <<MsgNetwork>>
  ELSE <<MsgWrap>>

\* the message of the Error the catch block throws for a caught error
FacadeRethrow(msg) ==
  IF Includes(msg, "NetworkError") \/ Includes(msg, "Failed to fetch")
  THEN <<MsgNetwork>>
  ELSE <<MsgWrap>> \o msg

\* throw new Error(data.error || 'OCR请求失败')
FacadeFailure(data) ==
  IF "error" \in DOMAIN data /\ data.error # <<>>
  THEN data.error ELSE <<MsgRequestFailed>>

NoArg == [provider |-> "", imageBase64 |-> [defined |-> FALSE, len |-> 0]]
NoOut == [kind |-> "none"]

\* performCloudOcr from its entry to the fetch of /api/ocr
CloudOcrCall(provider, len) ==
  /\ farg' = [provider |-> provider,
              imageBase64 |-> [defined |-> TRUE, len |-> len]]
  /\ IF IsLocal(provider)
     THEN /\ fout' = [kind |-> "throw", message |-> <<MsgLocalDirect>>]
          /\ fpc' = "done"
          /\ UNCHANGED fcalls
     ELSE /\ fcalls' = Append(fcalls,
                [url |-> "/api/ocr", method |-> "POST",
                 body |-> [present |-> TRUE,
                           provider |-> providerMap(provider),
                           imageBase64 |-> [defined |-> TRUE, len |-> len]]])
          /\ fpc' = "sent"
          /\ UNCHANGED fout
  /\ UNCHANGED <<env, dlast, dvars, fcaught, pvars, tvars>>

\* a caller other than the analysis service invokes the facade
performCloudOcr ==
  /\ Idle
  /\ \E provider \in OCRProviders, len \in ImageLens : CloudOcrCall(provider, len)
  /\ UNCHANGED gvars

\* the facade's request reaches the dispatcher
FacadeDeliver ==
  /\ fpc = "sent"
  /\ ocrHandler(fcalls[1].method, fcalls[1].body)
  /\ fpc' = "awaiting"
  /\ UNCHANGED <<env, dlast, farg, fcalls, fcaught, fout, pvars, tvars, gvars>>

\* the facade's fetch() or response.json() rejects: before the request
\* reached the dispatcher, while the handler runs, or after it answered (the
\* handler's invocation is not affected and ends on its own)
FacadeFetchReject ==
  /\ fpc \in {"sent", "awaiting"}
  /\ \E msg \in BrowserFetchErrors :
       /\ fcaught' = Append(fcaught, msg)
       /\ fout' = [kind |-> "throw", message |-> FacadeRethrow(msg)]
  /\ fpc' = "done"
  /\ UNCHANGED <<env, dlast, dvars, farg, fcalls, pvars, tvars, gvars>>

\* performCloudOcr resumes with the dispatcher's response
FacadeReceive ==
  /\ fpc = "awaiting" /\ dpc = "done"
  /\ LET ok   == dresp.status \in 200..299
         data == dresp.body
     IN IF ~ok \/ ~data.success
        THEN /\ fcaught' = Append(fcaught, FacadeFailure(data))
             /\ fout' = [kind |-> "throw",
                         message |-> FacadeRethrow(FacadeFailure(data))]
        ELSE /\ fout' = [kind |-> "return",
                         value |-> [text |-> data.data.text,
                                    provider |-> data.data.provider,
                                    rawResult |-> data.data.rawResult]]
             /\ UNCHANGED fcaught
  /\ fpc' = "done"
  /\ DispatcherReset
  /\ UNCHANGED <<env, farg, fcalls, pvars, tvars, gvars>>

\* the call is over; its locals are gone
FacadeReturn ==
  /\ fpc = "done" /\ gpc = "idle"
  /\ fpc' = "idle" /\ farg' = NoArg /\ fcalls' = <<>> /\ fcaught' = <<>>
  /\ fout' = NoOut
  /\ UNCHANGED <<env, dlast, dvars, pvars, tvars, gvars>>

----------------------------------------------------------------------------
(* Connectivity prober: the handler of /api/ocr/test *)

MsgMissingProvider == "Missing provider parameter"          \* '缺少提供商参数'
MsgIncomplete == " OCR environment variables are not fully configured"
                                  \* ` OCR 环境变量未配置完整`
MsgPleaseConfigure == "Configure in the Vercel environment variables: "
                                  \* `请在Vercel环境变量中配置: `
MsgBaiduProbeOk == "Baidu OCR connection test succeeded"    \* '百度OCR连接测试成功'
MsgConfigOk == " OCR configuration verified"                \* ` OCR 配置验证通过`
MsgProbeFailed == "Connection test failed"                  \* '连接测试失败'

\* the message of the TypeError of Object.entries(undefined)
MsgEntriesOfUndefined == "Cannot convert undefined or null to object"

\* envVars[provider], as Object.entries lists it: <<key, value>> pairs in
\* the order of the object literal
ProviderVars(p, e) ==
  CASE p = "baidu"  -> << <<"apiKey", e["BAIDU_OCR_API_KEY"]>>,
                          <<"secretKey", e["BAIDU_OCR_SECRET_KEY"]>> >>
    [] p = "aliyun" -> << <<"accessKeyId", e["ALIYUN_OCR_ACCESS_KEY_ID"]>>,
                          <<"accessKeySecret", e["ALIYUN_OCR_ACCESS_KEY_SECRET"]>> >>
    [] p = "wechat" -> << <<"appId", e["WECHAT_OCR_APP_ID"]>>,
                          <<"appSecret", e["WECHAT_OCR_APP_SECRET"]>> >>
    [] p = "gemini" -> << <<"apiKey", e["GEMINI_API_KEY"]>> >>

\* the keys pushed by the forEach: those whose value is falsy
RECURSIVE MissingOf(_)
MissingOf(entries) ==
  IF entries = <<>> THEN <<>>
  ELSE (IF ~Truthy(entries[1][2]) THEN <<entries[1][1]>> ELSE <<>>)
       \o MissingOf(Tail(entries))

\* the forEach reporting the first missing key only
FirstMissingField(p, e) ==
  LET all == MissingOf(ProviderVars(p, e))
  IN IF all = <<>> THEN <<>> ELSE <<all[1]>>

MissingFields(p, e) == MissingOf(ProviderVars(p, e))

\* missingFields.join(', ') as message fragments
RECURSIVE JoinComma(_)
JoinComma(ks) ==
  IF Len(ks) = 0 THEN <<>>
  ELSE IF Len(ks) = 1 THEN <<ks[1]>>
  ELSE <<ks[1], ", ">> \o JoinComma(Tail(ks))

\* messages of the errors with which the runtime's fetch() or
\* response.json() rejects in the prober
ProbeFetchErrors ==
  {<<"fetch failed">>, <<"Unexpected token < in JSON at position 0">>, <<>>}

NoProbeBody == [present |-> FALSE, provider |-> Undefined]
ProbeBodies == {NoProbeBody} \cup [present : {TRUE}, provider : ProviderValues]
ProbeRequests ==
  [method : {"POST"}, body : ProbeBodies]
  \cup
  [method : {"OPTIONS", "GET"},
   body : {NoProbeBody, [present |-> TRUE, provider |-> "baidu"]}]
NoProbeReq == [method |-> "", body |-> NoProbeBody]

ProbeSend(status, body) ==
  /\ presp' = [status |-> status, body |-> body]
  /\ ppc' = "done"

\* catch (error) { ... response.status(500).json({...}) }
ProbeCatch(msg) ==
  ProbeSend(500, [success |-> FALSE,
                  error |-> IF msg # <<>> THEN msg ELSE <<MsgProbeFailed>>])

\* the 400 answer that lists the missing fields
MissingReply(p, missing) ==
  [status |-> 400,
   body |-> [success |-> FALSE,
             error |-> <<p, MsgIncomplete>>,
             missingFields |-> missing,
             message |-> <<MsgPleaseConfigure>> \o JoinComma(missing)]]

\* the handler from its entry to its first await (or to its return)
testHandler(method, body) ==
  /\ ppc = "idle"
  /\ preq' = [method |-> method, body |-> body]
  /\ IF method = "OPTIONS"
     THEN ProbeSend(200, [ended |-> TRUE]) /\ UNCHANGED pcalls
     ELSE IF method # "POST"
     THEN ProbeSend(405, [success |-> FALSE, error |-> <<MsgPostOnly>>])
          /\ UNCHANGED pcalls
     ELSE IF ~body.present \/ ~Truthy(body.provider)
     THEN ProbeSend(400, [success |-> FALSE, error |-> <<MsgMissingProvider>>])
          /\ UNCHANGED pcalls
     ELSE IF body.provider \notin Providers
     THEN ProbeCatch(<<MsgEntriesOfUndefined>>) /\ UNCHANGED pcalls
     ELSE LET missing == MissingFields(body.provider, env) IN
          IF missing # <<>>
          THEN LET r == MissingReply(body.provider, missing) IN
               ProbeSend(r.status, r.body) /\ UNCHANGED pcalls
          ELSE IF body.provider = "baidu"
          THEN /\ pcalls' = Append(pcalls, UrlBaiduToken)
               /\ ppc' = "token"
               /\ UNCHANGED presp
          ELSE /\ ProbeSend(200, [success |-> TRUE,
                                  message |-> <<body.provider, MsgConfigOk>>,
                                  configured |-> TRUE])
               /\ UNCHANGED pcalls

\* a request arrives at /api/ocr/test
ProbeRequest ==
  /\ Idle
  /\ \E r \in ProbeRequests : testHandler(r.method, r.body)
  /\ UNCHANGED ptoken
  /\ UNCHANGED <<env, dlast, dvars, fvars, gvars, tvars>>

\* the handshake answering success whatever the token response says
HandshakeReplyAlwaysOk(data) ==
  [success |-> TRUE, message |-> <<MsgBaiduProbeOk>>]

\* the JSON body answered after the Baidu token handshake; JSON.stringify
\* omits expiresIn when expires_in is undefined
HandshakeReply(data) ==
  IF Truthy(data.error)
  THEN [success |-> FALSE,
        error |-> <<MsgBaiduAuth, Str(data.error_description)>>]
  ELSE IF data.expires_in = Undefined
  THEN [success |-> TRUE, message |-> <<MsgBaiduProbeOk>>]
  ELSE [success |-> TRUE, message |-> <<MsgBaiduProbeOk>>,
        expiresIn |-> data.expires_in]

\* the handler resumes with the Baidu token endpoint's JSON
ProbeTokenReply ==
  /\ ppc = "token"
  /\ \E data \in BaiduTokenData :
       /\ ptoken' = [kind |-> "json", data |-> data]
       /\ ProbeSend(200, HandshakeReply(data))
  /\ UNCHANGED <<env, dlast, dvars, fvars, preq, pcalls, gvars, tvars>>

\* the pending fetch() or response.json() rejects
ProbeFetchReject ==
  /\ ppc = "token"
  /\ \E msg \in ProbeFetchErrors :
       /\ ProbeCatch(msg)
       /\ ptoken' = [kind |-> "reject", message |-> msg]
  /\ UNCHANGED <<env, dlast, dvars, fvars, preq, pcalls, gvars, tvars>>

\* the invocation is over; its locals are gone
ProbeReturn ==
  /\ ppc = "done" /\ tpc = "idle"
  /\ ppc' = "idle" /\ preq' = NoProbeReq /\ pcalls' = <<>> /\ presp' = NoResp
  /\ ptoken' = NoToken
  /\ UNCHANGED <<env, dlast, dvars, fvars, gvars, tvars>>

-----------------------------------------------------------------------------
(* Analysis service: analyzePosterImage and parseTerminologyFromText.
   Two versions are in the repository: the one that sits beside the facade
   (src/unnamed/part_001, "service") and the earlier one
   (src/services/geminiService.ts, "legacy"). *)

\* "Gemini API Key 未配置。请在OCR配置中设置Gemini API Key。"
MsgAnalyzeKeyMissing == "Gemini API Key not configured. Set the Gemini API Key in the OCR configuration."
\* "Gemini API Key 未配置。"
MsgTermsKeyMissing == "Gemini API Key not configured."
MsgEmptyAnalysis == "Analysis engine returned empty response."
\* "Gemini API Key 无效或已过期。请在配置中检查并更新。"
MsgKeyInvalid == "Gemini API Key invalid or expired. Check and update it in the configuration."
\* "API 调用次数超限或配额不足。请稍后重试或检查API配额。"
MsgQuota == "API call limit exceeded or quota insufficient. Retry later or check the API quota."
\* "网络连接失败，请检查网络后重试。"
MsgAnalyzeNetwork == "Network connection failed, check the network and retry."
\* "分析失败: "
MsgAnalyzeWrap == "Analysis failed: "
\* '未知错误'
MsgUnknownError == "unknown error"
MsgEmptyTextAnalysis == "Text analysis engine returned empty response."
\* "文本分析失败: "
MsgTextWrap == "Text analysis failed: "

\* window.__GUARDVISION_CONFIG__?.geminiApiKey, import.meta.env.VITE_GEMINI_API_KEY
WindowKeys == {Undefined, "", "w"}
ViteKeys == {Undefined, "v"}
\* process.env.API_KEY of the legacy version
LegacyKeys == {Undefined, "k"}

getGeminiApiKey(windowKey, viteKey) ==
  IF Truthy(windowKey) THEN windowKey
  ELSE IF Truthy(viteKey) THEN viteKey ELSE ""

\* error.message of what the model call rejects with (<<>> : no message)
ModelErrors ==
  { <<"[400] API key not valid. ", "API_KEY_INVALID">>,
    <<"Request had invalid ", "authentication", " credentials">>,
    <<"You exceeded your current ", "quota">>,
    <<"Too many requests: ", "rate limit", " reached">>,
    <<"A ", "network", " error occurred">>,
    <<"Failed to ", "fetch">>,
    <<"API_KEY_INVALID", " after ", "quota", " check over the ", "network">>,
    <<"quota", " lookup: ", "network", " down">>,
    <<"rate limit", " and ", "authentication">>,
    <<"[503] The model is overloaded">>,
    <<>> }

\* response.text of a resolved model call
TermTexts ==
  {Undefined, "", "[]", "[{\"term\":\"NVR\"}]", "Here are the terms: NVR",
   "fetch failed upstream"}
AnalysisTexts ==
  {Undefined, "", "{\"text\":\"NVR\",\"analysis\":{}}", "{\"text\":\"\",\"analysis\":{}}",
   "{\"text\":\"NV", "network down", "quota exceeded"}
SecurityTexts ==
  {Undefined, "", "{\"originalText\":\"NVR\",\"errors\":[]}", "network down"}

\* the message of the SyntaxError JSON.parse throws for a text that is not
\* JSON.  It depends on the runtime: a current V8 quotes the beginning of the
\* text, an older one names the offending token and its position.
SyntaxErrorMessages(text) ==
  CASE text = "Here are the terms: NVR" ->
         { <<"Unexpected token 'H', \"", "Here are t", "\"... is not valid JSON">>,
           <<"Unexpected token H in JSON at position 0">> }
    [] text = "fetch failed upstream" ->
         { <<"Unexpected token 'e', \"", "fetch", " faile", "\"... is not valid JSON">>,
           <<"Unexpected token e in JSON at position 1">> }
    [] text = "network down" ->
         { <<"Unexpected token 'e', \"", "network", " down", "\" is not valid JSON">>,
           <<"Unexpected token e in JSON at position 1">> }
    [] text = "quota exceeded" ->
         { <<"Unexpected token 'q', \"", "quota", " exceeded", "\" is not valid JSON">>,
           <<"Unexpected token q in JSON at position 0">> }
    [] text = "{\"text\":\"NV" ->
         { <<"Unterminated string in JSON at position 11">>,
           <<"Unexpected end of JSON input">> }
    [] OTHER -> { <<"Unexpected end of JSON input">> }

\* JSON.parse on the texts above: the outcomes the runtime can produce
JsonParse(text) ==
  CASE text = "[]" -> {[ok |-> TRUE, value |-> <<>>]}
    [] text = "[{\"term\":\"NVR\"}]" -> {[ok |-> TRUE, value |-> <<[term |-> "NVR"]>>]}
    [] text = "{\"text\":\"NVR\",\"analysis\":{}}"
         -> {[ok |-> TRUE, value |-> [text |-> "NVR", analysis |-> "{}"]]}
    [] text = "{\"text\":\"\",\"analysis\":{}}"
         -> {[ok |-> TRUE, value |-> [text |-> "", analysis |-> "{}"]]}
    [] text = "{\"originalText\":\"NVR\",\"errors\":[]}"
         -> {[ok |-> TRUE, value |-> [originalText |-> "NVR", errors |-> <<>>]]}
    [] OTHER -> {[ok |-> FALSE, message |-> m] : m \in SyntaxErrorMessages(text)}

Throw(msg) == [kind |-> "throw", message |-> msg]
Return(v) == [kind |-> "return", value |-> v]

\* the message thrown by analyzePosterImage's catch block for a caught message
AnalyzeRethrowQuotaFirst(msg) ==
  IF Includes(msg, "quota") \/ Includes(msg, "rate limit") THEN <<MsgQuota>>
  ELSE IF Includes(msg, "API_KEY_INVALID") \/ Includes(msg, "authentication")
  THEN <<MsgKeyInvalid>>
  ELSE IF Includes(msg, "network") \/ Includes(msg, "fetch") THEN <<MsgAnalyzeNetwork>>
  ELSE <<MsgAnalyzeWrap>> \o (IF msg = <<>> THEN <<MsgUnknownError>> ELSE msg)
AnalyzeRethrow(msg) ==
  IF Includes(msg, "API_KEY_INVALID") \/ Includes(msg, "authentication")
  THEN <<MsgKeyInvalid>>
  ELSE IF Includes(msg, "quota") \/ Includes(msg, "rate limit") THEN <<MsgQuota>>
  ELSE IF Includes(msg, "network") \/ Includes(msg, "fetch") THEN <<MsgAnalyzeNetwork>>
  ELSE <<MsgAnalyzeWrap>> \o (IF msg = <<>> THEN <<MsgUnknownError>> ELSE msg)

\* the message thrown by analyzeSecurityText's catch block
TextRethrow(msg) ==
  <<MsgTextWrap>> \o (IF msg = <<>> THEN <<MsgUnknownError>> ELSE msg)

\* what the statements after the model call do with response.text, parsed
\* being the outcome of JSON.parse on it when they reach the parse
\* (each result carries the message the enclosing catch block caught, if any)
Ended(out, caught) == [out |-> out, caught |-> caught]

TermsOnTextNoCatch(version, text, parsed) ==
  IF ~Truthy(text) THEN Ended(Return(<<>>), <<>>)
  ELSE IF parsed.ok THEN Ended(Return(parsed.value), <<>>)
  ELSE Ended(Throw(parsed.message), <<>>)
TermsOnText(version, text, parsed) ==
  IF ~Truthy(text) THEN Ended(Return(<<>>), <<>>)
  ELSE IF parsed.ok THEN Ended(Return(parsed.value), <<>>)
  ELSE IF version = "service" THEN Ended(Return(<<>>), <<parsed.message>>)
  ELSE Ended(Throw(parsed.message), <<>>)

TermsOnReject(version, msg) ==
  IF version = "service" THEN Ended(Return(<<>>), <<msg>>)
  ELSE Ended(Throw(msg), <<>>)

\* the legacy version falls back on the pre-extracted text
LegacyText(parsed, preExtractedText) ==
  IF Truthy(preExtractedText) /\ ~Truthy(parsed.text)
  THEN [parsed EXCEPT !.text = preExtractedText] ELSE parsed

AnalyzeOnText(version, text, preExtractedText, parsed) ==
  IF version = "service"
  THEN IF ~Truthy(text)
       THEN Ended(Throw(AnalyzeRethrow(<<MsgEmptyAnalysis>>)), <<<<MsgEmptyAnalysis>>>>)
       ELSE IF parsed.ok THEN Ended(Return(parsed.value), <<>>)
       ELSE Ended(Throw(AnalyzeRethrow(parsed.message)), <<parsed.message>>)
  ELSE IF ~Truthy(text) THEN Ended(Throw(<<MsgEmptyAnalysis>>), <<>>)
       ELSE IF parsed.ok
       THEN Ended(Return(LegacyText(parsed.value, preExtractedText)), <<>>)
       ELSE Ended(Throw(parsed.message), <<>>)

AnalyzeOnReject(version, msg) ==
  IF version = "service" THEN Ended(Throw(AnalyzeRethrow(msg)), <<msg>>)
  ELSE Ended(Throw(msg), <<>>)

TextOnText(text, parsed) ==
  IF ~Truthy(text)
  THEN Ended(Throw(TextRethrow(<<MsgEmptyTextAnalysis>>)), <<<<MsgEmptyTextAnalysis>>>>)
  ELSE IF parsed.ok THEN Ended(Return(parsed.value), <<>>)
  ELSE Ended(Throw(TextRethrow(parsed.message)), <<parsed.message>>)

NoModel == [kind |-> "none"]
NoGArg == [fn |-> "none", version |-> "none", text |-> Undefined,
           ocrProvider |-> Undefined, apiKey |-> Null]

\* free-form text handed to parseTerminologyFromText
RawTexts == {"", "NVR: Network Video Recorder"}
PreExtractedTexts == {Undefined, "PRE"}

parseTerminologyFromText ==
  /\ Idle
  /\ \E rawText \in RawTexts, w \in WindowKeys, v \in ViteKeys :
       LET key == getGeminiApiKey(w, v) IN
       /\ garg' = [fn |-> "parseTerminologyFromText", version |-> "service",
                   text |-> rawText, ocrProvider |-> Undefined, apiKey |-> key]
       /\ IF ~Truthy(key)
          THEN gpc' = "done" /\ gout' = Throw(<<MsgTermsKeyMissing>>)
          ELSE gpc' = "model" /\ UNCHANGED gout
  /\ UNCHANGED <<env, dlast, dvars, fvars, pvars, tvars, gocr, gswallowed, gmodel, gcaught>>

parseTerminologyFromTextLegacy ==
  /\ Idle
  /\ \E rawText \in RawTexts, key \in LegacyKeys :
       garg' = [fn |-> "parseTerminologyFromText", version |-> "legacy",
                text |-> rawText, ocrProvider |-> Undefined, apiKey |-> key]
  /\ gpc' = "model"
  /\ UNCHANGED <<env, dlast, dvars, fvars, pvars, tvars, gocr, gswallowed, gmodel, gcaught,
                 gout>>

analyzeSecurityText ==
  /\ Idle
  /\ \E inputText \in {"", "4K NVR"}, w \in WindowKeys, v \in ViteKeys :
       LET key == getGeminiApiKey(w, v) IN
       /\ garg' = [fn |-> "analyzeSecurityText", version |-> "service",
                   text |-> inputText, ocrProvider |-> Undefined, apiKey |-> key]
       /\ IF ~Truthy(key)
          THEN gpc' = "done" /\ gout' = Throw(<<"Gemini API Key not configured.">>)  \* same literal
          ELSE gpc' = "model" /\ UNCHANGED gout
  /\ UNCHANGED <<env, dlast, dvars, fvars, pvars, tvars, gocr, gswallowed, gmodel, gcaught>>

\* analyzePosterImage up to its first await
analyzePosterImage ==
  /\ Idle
  /\ \E pre \in PreExtractedTexts, ocrProvider \in {Undefined, "GEMINI", "ESEARCH", "BAIDU"},
        w \in WindowKeys, v \in ViteKeys :
       /\ gocr' = pre
       /\ IF ~Truthy(pre) /\ Truthy(ocrProvider) /\ ocrProvider # "GEMINI"
          THEN /\ garg' = [fn |-> "analyzePosterImage", version |-> "service",
                           text |-> pre, ocrProvider |-> ocrProvider, apiKey |-> Null]
               /\ UNCHANGED gout
               /\ IF IsLocal(ocrProvider)
                  THEN gpc' = "localocr" /\ UNCHANGED <<env, dlast, dvars, fvars, pvars, tvars>>
                  ELSE gpc' = "ocr" /\ CloudOcrCall(ocrProvider, 1)
          ELSE LET key == getGeminiApiKey(w, v) IN
               /\ garg' = [fn |-> "analyzePosterImage", version |-> "service",
                           text |-> pre, ocrProvider |-> ocrProvider, apiKey |-> key]
               /\ IF ~Truthy(key)
                  THEN gpc' = "done" /\ gout' = Throw(<<MsgAnalyzeKeyMissing>>)
                  ELSE gpc' = "model" /\ UNCHANGED gout
               /\ UNCHANGED <<env, dlast, dvars, fvars, pvars, tvars>>
  /\ UNCHANGED <<gswallowed, gmodel, gcaught>>

\* performLocalOcr settles: resolved with a text, or rejected (the catch
\* block logs the error and goes on)
AnalyzeLocalOcrDone ==
  /\ gpc = "localocr"
  /\ \/ \E text \in {"", "LOCAL"} : gocr' = text /\ UNCHANGED gswallowed
     \/ \E msg \in {<<"Worker terminated">>} :
          gswallowed' = Append(gswallowed, msg) /\ UNCHANGED gocr
  /\ \E w \in WindowKeys, v \in ViteKeys :
       LET key == getGeminiApiKey(w, v) IN
       /\ garg' = [garg EXCEPT !.apiKey = key]
       /\ IF ~Truthy(key)
          THEN gpc' = "done" /\ gout' = Throw(<<MsgAnalyzeKeyMissing>>)
          ELSE gpc' = "model" /\ UNCHANGED gout
  /\ UNCHANGED <<env, dlast, dvars, fvars, pvars, tvars, gmodel, gcaught>>

\* performCloudOcr settles: its text becomes ocrText, its failure is logged
\* and swallowed
AnalyzeCloudOcrDone ==
  /\ gpc = "ocr" /\ fpc = "done"
  /\ IF fout.kind = "return"
     THEN gocr' = fout.value.text /\ UNCHANGED gswallowed
     ELSE gswallowed' = Append(gswallowed, fout.message) /\ UNCHANGED gocr
  /\ \E w \in WindowKeys, v \in ViteKeys :
       LET key == getGeminiApiKey(w, v) IN
       /\ garg' = [garg EXCEPT !.apiKey = key]
       /\ IF ~Truthy(key)
          THEN gpc' = "done" /\ gout' = Throw(<<MsgAnalyzeKeyMissing>>)
          ELSE gpc' = "model" /\ UNCHANGED gout
  /\ fpc' = "idle" /\ farg' = NoArg /\ fcalls' = <<>> /\ fcaught' = <<>>
  /\ fout' = NoOut
  /\ UNCHANGED <<env, dlast, dvars, pvars, tvars, gmodel, gcaught>>

analyzePosterImageLegacy ==
  /\ Idle
  /\ \E pre \in PreExtractedTexts, key \in LegacyKeys :
       garg' = [fn |-> "analyzePosterImage", version |-> "legacy",
                text |-> pre, ocrProvider |-> Undefined, apiKey |-> key]
  /\ gpc' = "model"
  /\ UNCHANGED <<env, dlast, dvars, fvars, pvars, tvars, gocr, gswallowed, gmodel, gcaught,
                 gout>>

End(e) ==
  /\ gpc' = "done"
  /\ gout' = e.out
  /\ gcaught' = gcaught \o e.caught

\* ai.models.generateContent rejects
ModelReject ==
  /\ gpc = "model"
  /\ \E msg \in ModelErrors :
       /\ gmodel' = [kind |-> "reject", message |-> msg]
       /\ End(CASE garg.fn = "analyzePosterImage" -> AnalyzeOnReject(garg.version, msg)
                [] garg.fn = "analyzeSecurityText"
                     -> Ended(Throw(TextRethrow(msg)), <<msg>>)
                [] OTHER -> TermsOnReject(garg.version, msg))
  /\ UNCHANGED <<env, dlast, dvars, fvars, pvars, tvars, garg, gocr, gswallowed>>

\* ai.models.generateContent resolves (it cannot without a key)
ModelReply ==
  /\ gpc = "model" /\ Truthy(garg.apiKey)
  /\ \E text \in (CASE garg.fn = "analyzePosterImage" -> AnalysisTexts
                      [] garg.fn = "analyzeSecurityText" -> SecurityTexts
                      [] OTHER -> TermTexts) : \E parsed \in JsonParse(text) :
       /\ gmodel' = [kind |-> "text", text |-> text]
       /\ End(CASE garg.fn = "analyzePosterImage"
                     -> AnalyzeOnText(garg.version, text, garg.text, parsed)
                [] garg.fn = "analyzeSecurityText" -> TextOnText(text, parsed)
                [] OTHER -> TermsOnText(garg.version, text, parsed))
  /\ UNCHANGED <<env, dlast, dvars, fvars, pvars, tvars, garg, gocr, gswallowed>>

\* the call is over; its locals are gone
AnalysisReturn ==
  /\ gpc = "done"
  /\ gpc' = "idle" /\ garg' = NoGArg /\ gocr' = Undefined /\ gcaught' = <<>>
  /\ gswallowed' = <<>>
  /\ gmodel' = NoModel
  /\ gout' = NoOut
  /\ UNCHANGED <<env, dlast, dvars, fvars, pvars, tvars>>

-----------------------------------------------------------------------------
(* Facade: testCloudOcrConnection *)

\* '本地OCR无需云函数连接测试'
MsgLocalNoTest == "Local OCR needs no cloud function connection test"
MsgTestFailed == "Connection test failed"                   \* '连接测试失败'
MsgTestWrap == "Connection test failed: "                   \* `连接测试失败: `
MsgNetworkError == "network error"                          \* '网络错误'

\* what the function returns for a received response: if (!response.ok)
\* {success: false, message: data.error || ...}, else data itself
TestReply(status, data) ==
  IF status \notin 200..299
  THEN [success |-> FALSE,
        message |-> IF "error" \in DOMAIN data /\ data.error # <<>>
                    THEN data.error ELSE <<MsgTestFailed>>]
  ELSE data

\* what the catch block returns
TestCaught(msg) ==
  [success |-> FALSE,
   message |-> <<MsgTestWrap>> \o (IF msg # <<>> THEN msg ELSE <<MsgNetworkError>>)]

NoTestArg == [provider |-> Undefined]

\* testCloudOcrConnection up to its fetch
testCloudOcrConnection ==
  /\ Idle
  /\ \E provider \in OCRProviders :
       /\ targ' = [provider |-> provider]
       /\ IF IsLocal(provider)
          THEN /\ tout' = Return([success |-> TRUE, message |-> <<MsgLocalNoTest>>])
               /\ tpc' = "done"
               /\ UNCHANGED tcalls
          ELSE /\ tcalls' = Append(tcalls,
                     [url |-> "/api/ocr/test", method |-> "POST",
                      body |-> [present |-> TRUE, provider |-> providerMap(provider)]])
               /\ tpc' = "sent"
               /\ UNCHANGED tout
  /\ UNCHANGED <<env, dlast, dvars, fvars, pvars, gvars, tresp>>

\* the request reaches the prober
TestDeliver ==
  /\ tpc = "sent"
  /\ testHandler(tcalls[1].method, tcalls[1].body)
  /\ tpc' = "awaiting"
  /\ UNCHANGED <<env, dlast, dvars, fvars, ptoken, gvars, targ, tcalls, tresp, tout>>

\* fetch() or response.json() rejects: before the request reached the
\* prober, while its handler runs, or after it answered; the catch block
\* returns the failure
TestFetchReject ==
  /\ tpc \in {"sent", "awaiting"}
  /\ \E msg \in BrowserFetchErrors \cup {<<>>} : tout' = Return(TestCaught(msg))
  /\ tpc' = "done"
  /\ UNCHANGED <<env, dlast, dvars, fvars, pvars, gvars, targ, tcalls, tresp>>

\* the prober's response arrives
TestReceive ==
  /\ tpc = "awaiting" /\ ppc = "done"
  /\ tresp' = presp
  /\ tout' = Return(TestReply(presp.status, presp.body))
  /\ tpc' = "done"
  /\ ppc' = "idle" /\ preq' = NoProbeReq /\ pcalls' = <<>> /\ presp' = NoResp
  /\ ptoken' = NoToken
  /\ UNCHANGED <<env, dlast, dvars, fvars, gvars, targ, tcalls>>

\* the call is over; its locals are gone
TestReturn ==
  /\ tpc = "done"
  /\ tpc' = "idle" /\ targ' = NoTestArg /\ tcalls' = <<>> /\ tresp' = NoResp
  /\ tout' = NoOut
  /\ UNCHANGED <<env, dlast, dvars, fvars, pvars, gvars>>

----------------------------------------------------------------------------
(* Environment and specification *)

\* the deployment's environment variables are changed between invocations
SetEnv ==
  /\ Idle
  /\ \E v \in EnvVars : \E x \in EnvValues(v) :
       /\ x # env[v]
       /\ env' = [env EXCEPT ![v] = x]
  /\ UNCHANGED <<dlast, dvars, fvars, pvars, tvars, gvars>>

Init ==
  /\ env \in Envs
  /\ dpc = "idle" /\ dreq = NoReq /\ dcalls = <<>> /\ dcaught = <<>>
  /\ dtoken = NoToken /\ ddata = NoData
  /\ dresp = NoResp /\ dsent = 0
  /\ fpc = "idle" /\ farg = NoArg /\ fcalls = <<>> /\ fcaught = <<>>
  /\ fout = NoOut
  /\ ppc = "idle" /\ preq = NoProbeReq /\ pcalls = <<>> /\ presp = NoResp
  /\ ptoken = NoToken
  /\ gpc = "idle" /\ garg = NoGArg /\ gocr = Undefined /\ gcaught = <<>>
  /\ gswallowed = <<>>
  /\ gmodel = NoModel
  /\ dlast = "none"
  /\ tpc = "idle" /\ targ = NoTestArg /\ tcalls = <<>> /\ tresp = NoResp
  /\ tout = NoOut
  /\ gout = NoOut

Next ==
  \/ SetEnv
  \/ HttpRequest
  \/ FetchReject
  \/ BaiduTokenReply
  \/ WechatTokenReply
  \/ BaiduOcrReply
  \/ AliyunOcrReply
  \/ WechatOcrReply
  \/ GeminiReply
  \/ OcrReturn
  \/ performCloudOcr
  \/ FacadeDeliver
  \/ FacadeFetchReject
  \/ FacadeReceive
  \/ FacadeReturn
  \/ ProbeRequest
  \/ ProbeTokenReply
  \/ ProbeFetchReject
  \/ ProbeReturn
  \/ parseTerminologyFromText
  \/ parseTerminologyFromTextLegacy
  \/ analyzePosterImage
  \/ analyzeSecurityText
  \/ analyzePosterImageLegacy
  \/ AnalyzeLocalOcrDone
  \/ AnalyzeCloudOcrDone
  \/ ModelReject
  \/ ModelReply
  \/ AnalysisReturn
  \/ testCloudOcrConnection
  \/ TestDeliver
  \/ TestFetchReject
  \/ TestReceive
  \/ TestReturn

Spec == Init /\ [][Next]_vars

----------------------------------------------------------------------------
(* Properties of the dispatcher's request validation *)

\* the request the dispatcher is handling is a POST
Posted == dpc # "idle" /\ dreq.method = "POST"

\* no adapter ran for the request: nothing was fetched and no adapter error
\* reached the catch block
NoAdapterRan ==
  dcalls = <<>> /\ dcaught = <<>> /\ dtoken = NoToken /\ ddata = NoData

\* C1: a POST whose body is absent, or has no provider, or has no
\* imageBase64 (the empty string included) is answered 400 with
\* success:false, without any adapter being invoked or any vendor call made,
\* whatever the provider value is.
C1_MissingFieldsRejected ==
  (/\ Posted
   /\ \/ ~dreq.body.present
      \/ dreq.body.provider \in {Undefined, ""}
      \/ ~dreq.body.imageBase64.defined
      \/ dreq.body.imageBase64.len = 0)
  => /\ dpc = "done"
     /\ dresp.status = 400
     /\ dresp.body.success = FALSE
     /\ NoAdapterRan

C1_Witness ==
  /\ dpc = "done" /\ dreq.method = "POST"
  /\ dreq.body.present /\ dreq.body.provider = "baidu"
  /\ dreq.body.imageBase64 = [defined |-> TRUE, len |-> 0]
  /\ CredentialError("baidu", env) = <<>>
  /\ dresp.status = 400

\* C2: a POST whose imageBase64 is longer than 7*1024*1024 is answered 400
\* and no vendor call is made for it, for every provider value; a payload of
\* exactly that length is not rejected by the size guard.
C2_OversizeRejected ==
  /\ (Posted /\ dreq.body.present /\ dreq.body.imageBase64.defined
      /\ dreq.body.imageBase64.len > 7 * 1024 * 1024)
     => (dpc = "done" /\ dresp.status = 400 /\ dcalls = <<>>)
  /\ (Posted /\ dreq.body.present /\ dreq.body.imageBase64.defined
      /\ dreq.body.imageBase64.len = 7 * 1024 * 1024 /\ dpc = "done")
     => ("error" \in DOMAIN dresp.body => dresp.body.error # <<MsgTooLarge>>)

C2_Witness ==
  /\ dpc = "done" /\ dreq.method = "POST"
  /\ dreq.body.provider = "gemini"
  /\ dreq.body.imageBase64 = [defined |-> TRUE, len |-> 7 * 1024 * 1024 + 1]
  /\ CredentialError("gemini", env) = <<>>
  /\ dresp.status = 400 /\ dresp.body.error = <<MsgTooLarge>>

\* C3: a POST with a non-empty image within the size limit and a provider
\* value outside {baidu, aliyun, wechat, gemini} is answered 400, never 500,
\* with an error message that contains the provider value, and no adapter
\* is invoked and no outbound call made.
C3_UnsupportedProviderRejected ==
  (/\ Posted /\ dreq.body.present
   /\ dreq.body.imageBase64.defined
   /\ dreq.body.imageBase64.len > 0
   /\ dreq.body.imageBase64.len <= 7 * 1024 * 1024
   /\ dreq.body.provider \notin {Undefined, ""}
   /\ dreq.body.provider \notin {"baidu", "aliyun", "wechat", "gemini"})
  => /\ dpc = "done"
     /\ dresp.status = 400
     /\ dresp.body.success = FALSE
     /\ Contains(dresp.body.error, <<dreq.body.provider>>)
     /\ NoAdapterRan

C3_Witness ==
  /\ dpc = "done" /\ dreq.method = "POST"
  /\ dreq.body.provider = "tencent"
  /\ dreq.body.imageBase64 = [defined |-> TRUE, len |-> 1]
  /\ dresp.status = 400
  /\ dresp.body.error = <<MsgUnsupported, "tencent">>

----------------------------------------------------------------------------
(* Properties of the adapters *)

\* the environment variable behind each required field of a provider
RequiredEnv(p) ==
  CASE p = "baidu"  -> {<<"apiKey", "BAIDU_OCR_API_KEY">>,
                        <<"secretKey", "BAIDU_OCR_SECRET_KEY">>}
    [] p = "aliyun" -> {<<"accessKeyId", "ALIYUN_OCR_ACCESS_KEY_ID">>,
                        <<"accessKeySecret", "ALIYUN_OCR_ACCESS_KEY_SECRET">>}
    [] p = "wechat" -> {<<"appId", "WECHAT_OCR_APP_ID">>,
                        <<"appSecret", "WECHAT_OCR_APP_SECRET">>}
    [] p = "gemini" -> {<<"apiKey", "GEMINI_API_KEY">>}

\* the required fields of p that are unset
UnsetFields(p) ==
  {f[1] : f \in {g \in RequiredEnv(p) : env[g[2]] \in {Undefined, ""}}}

\* the token exchange of the running adapter failed: the call rejected, or
\* the token response carries the vendor's error indicator
TokenExchangeFailed ==
  \/ dtoken.kind = "reject"
  \/ /\ dtoken.kind = "json"
     /\ IF dreq.body.provider = "baidu"
        THEN dtoken.data.error \notin {Undefined, ""}
        ELSE dtoken.data.errcode \notin {Undefined, "0"}

\* the handler answered with an adapter's result
Succeeded == dpc = "done" /\ dreq.method = "POST" /\ dresp.status = 200

\* C4: for Baidu and WeChat with credentials present, a successful adapter
\* call makes exactly two outbound calls, the token exchange first and the
\* OCR request second; when the token call fails (error field in the token
\* response, or a transport error) the OCR request is never issued: exactly
\* one call is made.
C4_TokenThenOcr ==
  \A p \in {"baidu", "wechat"} :
    LET tokenUrl == IF p = "baidu" THEN "https://aip.baidubce.com/oauth/2.0/token"
                    ELSE "https://api.weixin.qq.com/cgi-bin/token"
        ocrUrl   == IF p = "baidu"
                    THEN "https://aip.baidubce.com/rest/2.0/ocr/v1/general_basic"
                    ELSE "https://api.weixin.qq.com/cv/ocr/comm"
    IN (Posted /\ dreq.body.provider = p)
       => /\ Succeeded => dcalls = <<tokenUrl, ocrUrl>>
          /\ TokenExchangeFailed => (dpc = "done" /\ dcalls = <<tokenUrl>>)
          /\ dcalls # <<>> => dcalls[1] = tokenUrl

C4_Witness ==
  /\ dpc = "done" /\ dreq.body.provider = "baidu"
  /\ dtoken.kind = "json" /\ dtoken.data.error = "invalid_client"
  /\ dtoken.data.error_description = Undefined
  /\ Len(dcalls) = 1 /\ dresp.status = 500

\* the Gemini adapter received a response without error field whose
\* candidate list is absent or empty
GeminiGaveNoCandidates ==
  /\ dpc = "done" /\ dreq.body.provider = "gemini"
  /\ ddata.kind = "json"
  /\ ~ddata.data.hasError
  /\ (~ddata.data.hasCandidates \/ ddata.data.candidates = <<>>)

\* C5: the Gemini adapter fails with an error, instead of returning a result
\* whose text is the empty string, whenever the vendor response has no error
\* field and its candidate list is absent or empty.
C5_GeminiEmptyCandidatesFail ==
  GeminiGaveNoCandidates => (dresp.status = 500 /\ dcaught # <<>>)

\* C5, amended: in that case the Gemini adapter does not fail; it returns a
\* result whose text is the empty string and whose provider is 'gemini'.
C5_GeminiEmptyCandidatesGiveEmptyText ==
  GeminiGaveNoCandidates
  => /\ dresp.status = 200
     /\ dcaught = <<>>
     /\ dresp.body.data.text = ""
     /\ dresp.body.data.provider = "gemini"

C5_Witness ==
  /\ GeminiGaveNoCandidates
  /\ ddata.data.hasCandidates /\ ddata.data.candidates = <<>>
  /\ dresp.status = 200 /\ dresp.body.data.text = ""

\* the vendor's non-error response has no recognisable content: its result
\* array or content field is absent or empty
NoContent(p, raw) ==
  CASE p = "baidu"  -> ~raw.hasWords \/ raw.words_result = <<>>
    [] p = "aliyun" -> ~raw.hasData \/ raw.Content \in {Undefined, Null, ""}
    [] p = "wechat" -> ~raw.hasItems \/ raw.items = <<>>
    [] p = "gemini" -> \/ ~raw.hasCandidates
                       \/ raw.candidates = <<>>
                       \/ raw.candidates[1] \in {Undefined, Null, ""}

\* C6: every result an adapter returns has a text that is a string, never
\* null or undefined; when the vendor's non-error response has an absent or
\* empty result array / content field, the text is the empty string and the
\* provider is the adapter's own identifier.
C6_TextDefaultsToEmpty ==
  Succeeded
  => /\ dresp.body.data.text \notin {Undefined, Null}
     /\ dresp.body.data.provider = dreq.body.provider
     /\ NoContent(dreq.body.provider, dresp.body.data.rawResult)
        => dresp.body.data.text = ""

C6_Witness ==
  /\ Succeeded /\ dreq.body.provider = "aliyun"
  /\ ~dresp.body.data.rawResult.hasData
  /\ dresp.body.data.text = ""

\* the request passes the handler's validation and selects an adapter
Dispatched ==
  /\ Posted /\ dreq.body.present
  /\ dreq.body.provider \in {"baidu", "aliyun", "wechat", "gemini"}
  /\ dreq.body.imageBase64.defined
  /\ dreq.body.imageBase64.len > 0
  /\ dreq.body.imageBase64.len <= 7 * 1024 * 1024

\* the OCR response of the running adapter carries the vendor's error
\* indicator
VendorReportedError ==
  /\ ddata.kind = "json"
  /\ CASE dreq.body.provider = "baidu"  ->
             ddata.data.error_code \notin {Undefined, "0"}
        [] dreq.body.provider = "aliyun" -> ddata.data.Code # "200"
        [] dreq.body.provider = "wechat" ->
             ddata.data.errcode \notin {Undefined, "0"}
        [] dreq.body.provider = "gemini" -> ddata.data.hasError

\* the selected adapter failed: credentials missing, token exchange failed,
\* OCR request answered with an error, or a call rejected
AdapterFailed ==
  /\ Dispatched
  /\ \/ UnsetFields(dreq.body.provider) # {}
     \/ TokenExchangeFailed
     \/ ddata.kind = "reject"
     \/ VendorReportedError

\* C7: whenever the selected adapter fails at any stage, the handler answers
\* exactly once, with status 500 and an envelope with success:false and an
\* error message; the envelope has no data, text or rawResult, and has
\* details only when NODE_ENV is 'development'.
C7_FailureEnvelope ==
  (AdapterFailed \/ dcaught # <<>>)
  => /\ dpc = "done"
     /\ dsent = 1
     /\ dresp.status = 500
     /\ dresp.body.success = FALSE
     /\ dresp.body.error # <<>>
     /\ DOMAIN dresp.body \subseteq {"success", "error", "details"}
     /\ "details" \in DOMAIN dresp.body => env["NODE_ENV"] = "development"

C7_Witness ==
  /\ dpc = "done" /\ AdapterFailed /\ Len(dcalls) = 2
  /\ env["NODE_ENV"] = "production"
  /\ dresp.status = 500 /\ "details" \notin DOMAIN dresp.body

----------------------------------------------------------------------------
(* Properties of the failure conversions and of the facade *)

\* the dispatcher's 500 envelope carries the caught error's message
DispatcherPreserves ==
  dcaught # <<>> => Contains(dresp.body.error, dcaught[1])

\* the facade's catch block threw for a caught error
FacadeConverted == fpc = "done" /\ fcaught # <<>> /\ fout.kind = "throw"

\* the caught message is one the facade takes for a network failure
LooksLikeNetworkFailure(msg) ==
  \E i \in 1..Len(msg) : msg[i] \in {"NetworkError", "Failed to fetch"}

\* C8: whenever the dispatcher or the facade converts a failure into its
\* user-facing failure, the resulting message contains the original
\* failure's message, for every failure, those whose message contains
\* 'NetworkError' or 'Failed to fetch' included.
C8_MessagePreserved ==
  /\ DispatcherPreserves
  /\ FacadeConverted => Contains(fout.message, fcaught[1])

\* C8, amended: the dispatcher's envelope always contains the original
\* message; the facade's thrown message contains it unless the original
\* contains 'NetworkError' or 'Failed to fetch', in which case the facade
\* throws the fixed network-failure message instead.
C8_MessagePreservedUnlessNetwork ==
  /\ DispatcherPreserves
  /\ FacadeConverted
     => IF LooksLikeNetworkFailure(fcaught[1])
        THEN fout.message = <<MsgNetwork>>
        ELSE Contains(fout.message, fcaught[1])

C8_Witness ==
  /\ FacadeConverted
  /\ farg.provider = "BAIDU"
  /\ fcaught[1] = <<MsgBaiduAuth, "unknown client id">>
  /\ fout.message = <<MsgWrap, MsgBaiduAuth, "unknown client id">>

\* C9: performCloudOcr with provider LOCAL or ESEARCH sends nothing to the
\* dispatcher and fails with a message that is neither the network-failure
\* message nor the 'OCR识别失败: ...' wrapper; for every other provider
\* exactly one request is sent, to /api/ocr, carrying the remapped
\* identifier (GEMINI->gemini, BAIDU->baidu, WECHAT->wechat,
\* ALIBABA->aliyun).
C9_LocalNeverDispatched ==
  fpc # "idle"
  => IF farg.provider \in {"LOCAL", "ESEARCH"}
     THEN /\ fpc = "done"
          /\ fcalls = <<>> /\ dpc = "idle"
          /\ fout.kind = "throw"
          /\ fout.message # <<MsgNetwork>>
          /\ ~Contains(fout.message, <<MsgWrap>>)
          /\ fcaught = <<>>
     ELSE /\ Len(fcalls) = 1
          /\ fcalls[1].url = "/api/ocr"
          /\ fcalls[1].body.provider =
               (CASE farg.provider = "GEMINI"  -> "gemini"
                  [] farg.provider = "BAIDU"   -> "baidu"
                  [] farg.provider = "WECHAT"  -> "wechat"
                  [] farg.provider = "ALIBABA" -> "aliyun")
          /\ dpc # "idle" => dreq.body = fcalls[1].body

C9_Witness ==
  /\ fpc = "done" /\ farg.provider = "ESEARCH"
  /\ fcalls = <<>> /\ fout = [kind |-> "throw", message |-> <<MsgLocalDirect>>]

----------------------------------------------------------------------------
(* Properties of the connectivity prober *)

\* the prober is handling a POST for one of the four providers
Probing ==
  ppc # "idle" /\ preq.method = "POST" /\ preq.body.present
  /\ preq.body.provider \in {"baidu", "aliyun", "wechat", "gemini"}

\* C10: for each of the four providers and every combination of set/unset
\* credential variables: if a required field of the provider is unset, the
\* prober answers 400 with success:false and missingFields exactly the set
\* of that provider's unset required fields, and makes no outbound call; if
\* all are set, it produces no missing-field response.
C10_ExactMissingFields ==
  Probing
  => IF UnsetFields(preq.body.provider) # {}
     THEN /\ ppc = "done"
          /\ presp.status = 400
          /\ presp.body.success = FALSE
          /\ {presp.body.missingFields[i] :
                i \in 1..Len(presp.body.missingFields)}
               = UnsetFields(preq.body.provider)
          /\ Len(presp.body.missingFields)
               = Cardinality(UnsetFields(preq.body.provider))
          /\ pcalls = <<>>
     ELSE ppc = "done"
          => /\ presp.status # 400
             /\ "missingFields" \notin DOMAIN presp.body

C10_Witness ==
  /\ ppc = "done" /\ preq.method = "POST" /\ preq.body.provider = "wechat"
  /\ env["WECHAT_OCR_APP_ID"] = Undefined
  /\ env["WECHAT_OCR_APP_SECRET"] = Undefined
  /\ env["BAIDU_OCR_API_KEY"] = Undefined
  /\ presp.status = 400
  /\ presp.body.missingFields = <<"appId", "appSecret">>


\* C11: with all required credentials of the requested provider present,
\* the prober answers aliyun, wechat and gemini with success:true and
\* configured:true without any outbound call; for baidu it makes exactly
\* one outbound call, the token exchange, and no recognition call, and
\* answers success:true with the token's expiry when the token response has
\* no error field and success:false when it has one.
C11_HandshakeOnlyForBaidu ==
  (Probing /\ UnsetFields(preq.body.provider) = {})
  => IF preq.body.provider = "baidu"
     THEN /\ pcalls = <<"https://aip.baidubce.com/oauth/2.0/token">>
          /\ (ppc = "done" /\ ptoken.kind = "json")
             => /\ presp.status = 200
                /\ IF ptoken.data.error \in {Undefined, ""}
                   THEN /\ presp.body.success = TRUE
                        /\ ptoken.data.expires_in # Undefined
                           => /\ "expiresIn" \in DOMAIN presp.body
                              /\ presp.body.expiresIn = ptoken.data.expires_in
                        /\ ptoken.data.expires_in = Undefined
                           => "expiresIn" \notin DOMAIN presp.body
                   ELSE presp.body.success = FALSE
     ELSE /\ ppc = "done"
          /\ pcalls = <<>>
          /\ presp.status = 200
          /\ presp.body.success = TRUE
          /\ "configured" \in DOMAIN presp.body
          /\ presp.body.configured = TRUE

C11_Witness ==
  /\ ppc = "done" /\ preq.method = "POST" /\ preq.body.provider = "baidu"
  /\ pcalls = <<UrlBaiduToken>>
  /\ ptoken.kind = "json" /\ ptoken.data.error = "invalid_client"
  /\ presp.status = 200 /\ presp.body.success = FALSE

\* the running call of the analysis service is parseTerminologyFromText and
\* has ended
TermsEnded == gpc = "done" /\ garg.fn = "parseTerminologyFromText"
EmptyBody == gmodel.kind = "text" /\ gmodel.text \in {Undefined, ""}
UnparsableTerms ==
  gmodel.kind = "text" /\ gmodel.text \in {"Here are the terms: NVR", "fetch failed upstream"}

\* C12 as stated: parseTerminologyFromText never throws, and returns an empty
\* list when its input is empty or the model's body is empty, with or without
\* an API key and whatever the model call does.
C12_NeverThrows ==
  TermsEnded
  => /\ gout.kind = "return"
     /\ (garg.text = "" \/ EmptyBody) => gout.value = <<>>

\* C12, amended: with an API key the service version never throws and returns
\* an empty list when the model's body is empty, when the model call fails and
\* when its text does not parse; without a key it throws its configuration
\* error before calling the model.  The legacy version returns an empty list
\* for an empty body and lets a failed model call and a parse error propagate.
\* Neither version looks at its input: for a body that parses the result is
\* the parsed list, also when the input was empty.
C12_TermsTolerateEmptyBody ==
  TermsEnded
  => IF garg.version = "service"
     THEN IF garg.apiKey = ""
          THEN /\ gmodel.kind = "none"
               /\ gout.kind = "throw" /\ gout.message = <<"Gemini API Key not configured.">>
          ELSE /\ gout.kind = "return"
               /\ (EmptyBody \/ UnparsableTerms \/ gmodel.kind = "reject")
                  => gout.value = <<>>
               /\ (gmodel.kind = "text" /\ gmodel.text = "[{\"term\":\"NVR\"}]")
                  => gout.value = <<[term |-> "NVR"]>>
     ELSE /\ EmptyBody => (gout.kind = "return" /\ gout.value = <<>>)
          /\ gmodel.kind = "reject"
             => (gout.kind = "throw" /\ gout.message = gmodel.message)
          /\ UnparsableTerms => gout.kind = "throw"
          /\ (gmodel.kind = "text" /\ gmodel.text = "[{\"term\":\"NVR\"}]")
             => (gout.kind = "return" /\ gout.value = <<[term |-> "NVR"]>>)

C12_Witness ==
  /\ TermsEnded /\ garg.version = "service" /\ garg.apiKey = "v"
  /\ garg.text = "" /\ UnparsableTerms
  /\ gout.kind = "return" /\ gout.value = <<>>

\* the running call of the analysis service is analyzePosterImage, it has
\* ended, and its model call had failed with an error of the model provider
AnalyzeFailedOnModel ==
  gpc = "done" /\ garg.fn = "analyzePosterImage" /\ gmodel.kind = "reject"
HasAny(msg, needles) == \E n \in needles : Includes(msg, n)

\* C13 as stated: a model-provider error containing 'API_KEY_INVALID', 'quota'
\* or 'network' becomes the credential, quota or network message (first match
\* in that order), the three being pairwise distinct, and an error containing
\* none of the three passes through with its message contained in the thrown one.
C13_ThreeSubstrings ==
  AnalyzeFailedOnModel
  => /\ gout.kind = "throw"
     /\ Cardinality({MsgKeyInvalid, MsgQuota, MsgAnalyzeNetwork}) = 3
     /\ IF Includes(gmodel.message, "API_KEY_INVALID") THEN gout.message = <<MsgKeyInvalid>>
        ELSE IF Includes(gmodel.message, "quota") THEN gout.message = <<MsgQuota>>
        ELSE IF Includes(gmodel.message, "network") THEN gout.message = <<MsgAnalyzeNetwork>>
        ELSE Contains(gout.message, gmodel.message)

\* C13, amended: the service version translates a model-provider error by the
\* first matching pair of substrings, in the order ('API_KEY_INVALID' or
\* 'authentication') -> credential, ('quota' or 'rate limit') -> quota,
\* ('network' or 'fetch') -> network, into three pairwise distinct messages;
\* an error containing none of the six is thrown as "Analysis failed: "
\* followed by its message ("unknown error" when it has none).  The legacy
\* version translates nothing: the error propagates unchanged.
C13_SixSubstrings ==
  AnalyzeFailedOnModel
  => /\ gout.kind = "throw"
     /\ Cardinality({MsgKeyInvalid, MsgQuota, MsgAnalyzeNetwork}) = 3
     /\ IF garg.version = "legacy" THEN gout.message = gmodel.message
        ELSE IF HasAny(gmodel.message, {"API_KEY_INVALID", "authentication"})
        THEN gout.message = <<"Gemini API Key invalid or expired. Check and update it in the configuration.">>
        ELSE IF HasAny(gmodel.message, {"quota", "rate limit"})
        THEN gout.message = <<"API call limit exceeded or quota insufficient. Retry later or check the API quota.">>
        ELSE IF HasAny(gmodel.message, {"network", "fetch"})
        THEN gout.message = <<"Network connection failed, check the network and retry.">>
        ELSE /\ gout.message[1] = "Analysis failed: "
             /\ gmodel.message # <<>> => gout.message = <<"Analysis failed: ">> \o gmodel.message
             /\ gmodel.message = <<>> => gout.message = <<"Analysis failed: ", "unknown error">>

C13_Witness ==
  /\ AnalyzeFailedOnModel /\ garg.version = "service"
  /\ Includes(gmodel.message, "API_KEY_INVALID") /\ Includes(gmodel.message, "quota")
  /\ Includes(gmodel.message, "network")
  /\ gout.kind = "throw" /\ gout.message = <<MsgKeyInvalid>>

\* the vendor's name as the adapters' messages spell it
\* ('百度', '阿里云', '微信', 'Gemini')
VendorName(p) ==
  CASE p = "baidu" -> "Baidu" [] p = "aliyun" -> "Aliyun"
    [] p = "wechat" -> "WeChat" [] p = "gemini" -> "Gemini"

\* C14: when a required credential field of the selected provider is absent
\* at call time, the adapter fails with a message naming the provider and
\* makes no outbound call, neither token exchange nor OCR request; presence
\* is read from the environment on every call, so a credential unset between
\* two calls makes the second fail although the first succeeded.
C14_CredentialGuard ==
  (Dispatched /\ UnsetFields(dreq.body.provider) # {})
  => /\ dpc = "done"
     /\ dcalls = <<>> /\ dtoken.kind = "none" /\ ddata.kind = "none"
     /\ dcaught = << <<VendorName(dreq.body.provider)
                       \o (IF dreq.body.provider = "gemini"
                           THEN " API key not configured"
                           ELSE " OCR API key not configured")>> >>
     /\ dresp.status = 500 /\ dresp.body.success = FALSE
     /\ dresp.body.error = dcaught[1]

C14_Witness ==
  /\ dlast = "baidu"
  /\ Dispatched /\ dreq.body.provider = "baidu"
  /\ UnsetFields("baidu") = {"secretKey"}
  /\ dpc = "done" /\ dcalls = <<>> /\ dresp.status = 500
  /\ dcaught = << <<"Baidu OCR API key not configured">> >>

\* the outbound endpoints of a provider's adapter, in the order of its stages
StagePlan(p) ==
  CASE p = "baidu"  -> <<UrlBaiduToken, UrlBaiduOcr>>
    [] p = "aliyun" -> <<UrlAliyunOcr>>
    [] p = "wechat" -> <<UrlWechatToken, UrlWechatOcr>>
    [] p = "gemini" -> <<UrlGemini>>

\* what every state of an adapter invocation satisfies
StagesInOrder ==
  Dispatched
  => LET p == dreq.body.provider
         plan == StagePlan(p)
     IN /\ \E n \in 0..Len(plan) : dcalls = SubSeq(plan, 1, n)
        /\ Len(dcalls) <= (IF p \in {"baidu", "wechat"} THEN 2 ELSE 1)
        /\ (\/ UnsetFields(p) # {} \/ TokenExchangeFailed
            \/ ddata.kind = "reject" \/ VendorReportedError)
           => (dpc = "done" /\ dresp.status = 500)
        /\ TokenExchangeFailed => (Len(dcalls) = 1 /\ ddata.kind = "none")
        /\ Succeeded => /\ dcalls = plan
                        /\ ddata.kind = "json" /\ ~VendorReportedError
                        /\ ~TokenExchangeFailed

\* what every step does to the list of outbound calls
StageStep ==
  /\ dpc = "done" => dcalls' \in {dcalls, <<>>}
  /\ dcalls' # <<>>
     => \/ dcalls' = dcalls
        \/ /\ Len(dcalls') = Len(dcalls) + 1
           /\ SubSeq(dcalls', 1, Len(dcalls)) = dcalls
           /\ \A i \in 1..Len(dcalls) : dcalls[i] # dcalls'[Len(dcalls')]

\* C15: an adapter invocation goes START -> (TOKEN_EXCHANGE for Baidu and
\* WeChat) -> REQUEST -> SUCCESS or FAILURE and enters no stage twice: its
\* outbound calls are a prefix of the provider's endpoints in order (at most
\* one for Aliyun and Gemini, two for Baidu and WeChat), a failed stage ends
\* the invocation with no further call, and SUCCESS is reached only when all
\* stages ran and the OCR response carries no error indicator of the vendor.
C15_StageMachine == []StagesInOrder /\ [][StageStep]_vars

C15_Witness ==
  /\ Dispatched /\ dreq.body.provider = "wechat" /\ dpc = "done"
  /\ dcalls = <<UrlWechatToken, UrlWechatOcr>>
  /\ dtoken.kind = "json" /\ ddata.kind = "json"
  /\ ddata.data.errcode = "101000" /\ ddata.data.errmsg = Undefined
  /\ dresp.status = 500

\* C16 as stated: testCloudOcrConnection never rejects and resolves, for
\* every provider and every response of the prober, with an object that has
\* a boolean success and a string message, success being false whenever the
\* prober reported success:false.
C16_SuccessAndMessage ==
  tpc = "done"
  => /\ tout.kind = "return"
     /\ {"success", "message"} \subseteq DOMAIN tout.value
     /\ tout.value.success \in BOOLEAN
     /\ (tresp # NoResp /\ tresp.body.success = FALSE) => tout.value.success = FALSE

====
